---- MODULE Spec2Model ----
(***************************************************************************)
(* SilenCut: silence detection (RMS loudness -> hysteresis gate ->          *)
(* run-length morphology -> keep-intervals) and the render step.            *)
(*                                                                          *)
(* Times are integers in milliseconds; loudness is an integer in dB.        *)
(* Sequences are 1-based here, so frame i of the code is element i + 1.     *)
(***************************************************************************)
EXTENDS Integers, Sequences, FiniteSets, TLC

VARIABLES
    pc,             \* position of the caller in the flow
    cfg,            \* the SilenceDetector's fields (set by __init__)
    db,             \* detect_activity: loudness per frame
    idx,            \* detect_activity: number of frames the gate loop has consumed
    in_silence,     \* detect_activity: the gate's state
    mask_voice,     \* detect_activity: the gate's mask
    hop_duration,   \* detect_activity: hop / sr, in ms
    total_duration, \* detect_activity: len(y) / sr, in ms
    mask,           \* process: the mask after apply_morphology
    intervals,      \* process: the result of mask_to_intervals
    filter_complex, \* render: the plan handed to the encoder
    render_result,  \* render: "none", "returned" or "raised"
    encoder_calls,  \* render: number of subprocess.run calls made
    exported,       \* main: the intervals were written to --export-intervals
    signal,         \* detect_activity: len(y) and sr of the loaded audio
    squash_in,      \* _squash_short_runs: the array its caller passed in
    silences,       \* get_audio_segments: what detect_silence returned
    jobs,           \* app: the jobs dict, a function from its job ids to jobs
    jobs_file,      \* persist_jobs: what save_jobs wrote last
    semaphore,      \* app: the value of PROCESSING_SEMAPHORE
    files,          \* app: the job ids whose upload and whose output is on disk
    now,            \* the wall clock, in hours
    next_id,        \* upload_video: the next fresh job id
    cleanups,       \* cleanup_old_files tasks scheduled and not yet run
    response,       \* the answer the last step sent to an HTTP request, if any
    task_pc,        \* process_video_task of each job: its position
    task_job,       \* process_video_task: its local "job", a dict of jobs
    task_intervals, \* process_video_task: its local "intervals"
    task_exc,       \* process_video_task: the exception its try block caught
    task_renders,   \* process_video_task: calls of processor.render
    task_encodes    \* process_video_task: encoder runs made by render

corevars == <<pc, cfg, db, idx, in_silence, mask_voice, hop_duration,
              total_duration, mask, intervals, filter_complex, render_result,
              encoder_calls, exported, signal, squash_in, silences>>

webvars == <<jobs, jobs_file, semaphore, files, now, next_id, cleanups,
             response, task_pc, task_job, task_intervals, task_exc,
             task_renders, task_encodes>>

vars == <<corevars, webvars>>

----------------------------------------------------------------------------
(* Bounds of the model *)

\* longest loudness sequence fed to the frame-by-frame gate
MaxGateFrames == 4

\* longest mask that goes through process()
MaxFrames == 9

\* longest mask that goes through process() with a web request's parameters
MaxRequestFrames == 12

\* uploads the web application is given
MaxJobs == 2

\* longest mask given to the loops of _squash_short_runs and mask_to_intervals
\* when they run iteration by iteration
MaxLoopFrames == 4

\* most samples of an audio given to the framing of detect_activity
MaxSamples == 600

\* hours the wall clock of the web application runs
MaxClock == 3

\* longest audio given to the FFmpeg detector, in steps of FastStepMs, and
\* most silences detected in it
MaxFastSteps == 8
MaxSilences == 2

----------------------------------------------------------------------------
(* Program constants *)

\* SilenceDetector.__init__ defaults
ThresholdDb == -40
HysteresisDb == 3
MinSilenceMs == 270
MinNoiseMs == 70
MarginMs == 20
HopMs == 10
WindowMs == 20

\* "20 * np.log10(rms + 1e-9)" of a frame of zeros
FloorDb == -180

\* the web application: the largest upload, in MB, and the age, in hours,
\* after which cleanup_old_files deletes a job
MAX_FILE_SIZE == 300
CLEANUP_AFTER_HOURS == 2

\* detect_activity's sr: its default, and rates that give small windows, the
\* last one a window of 21 samples
SampleRates == {48000, 1000, 1050}

\* loudness of a frame, in dB: well below, at and around the thresholds, above
DbLevels == {-50, -43, -40, -37, -30}

\* loudness of a silent and of a loud frame (-10 dBFS)
LoudnessLevels == {-50, -10}

\* len(y) is (frames - 1) hops plus a rest shorter than one hop, in ms
SubHopRests == {0, 5}

Config(th, hy, ms, mn, mg) ==
    [threshold_db |-> th, hysteresis_db |-> hy, min_silence_ms |-> ms,
     min_noise_ms |-> mn, margin_ms |-> mg]

\* what the command line passes to SilenceDetector: argparse checks no range
Configs ==
    {Config(ThresholdDb, HysteresisDb, ms, mn, mg) :
        ms \in {0, 20, 25}, mn \in {0, 15, 30}, mg \in {0, MarginMs}}

\* configurations of the gate alone
GateConfigs ==
    {Config(ThresholdDb, hy, MinSilenceMs, MinNoiseMs, MarginMs) :
        hy \in {-3, 0, HysteresisDb}}

\* ProcessRequest: the ranges the web request model accepts
RequestAccepts(c) ==
    /\ c.threshold_db >= -60 /\ c.threshold_db <= -20
    /\ c.min_silence_ms >= 100 /\ c.min_silence_ms <= 2000
    /\ c.min_noise_ms >= 0 /\ c.min_noise_ms <= 500
    /\ c.hysteresis_db >= 1 /\ c.hysteresis_db <= 10
    /\ c.margin_ms >= 0 /\ c.margin_ms <= 200

RequestConfigs ==
    {c \in {Config(ThresholdDb, HysteresisDb, ms, mn, mg) :
                ms \in {100}, mn \in {0, MinNoiseMs}, mg \in {0, MarginMs, 200}} :
        RequestAccepts(c)}

\* the loudness arrays of 1 to n frames: centered framing of len(y) samples
\* gives 1 + len(y) // hop frames, so never none
BoundedSeqs(S, n) == UNION {[1..k -> S] : k \in 1..n}

Max(a, b) == IF a >= b THEN a ELSE b
Min(a, b) == IF a <= b THEN a ELSE b

\* int(np.ceil(a / b)) for b > 0
CeilDiv(a, b) == -((-a) \div b)

----------------------------------------------------------------------------
(* SilenceDetector.__init__ *)

EnterSilenceDb(c) == c.threshold_db - c.hysteresis_db
ExitSilenceDb(c) == c.threshold_db + c.hysteresis_db

----------------------------------------------------------------------------
(* SilenceDetector.detect_activity: the hysteresis gate *)

\* one iteration of the loop "for i, d in enumerate(db)": the new in_silence
GateNextSingleThreshold(c, silent, d) ==
    IF d > c.threshold_db THEN FALSE ELSE TRUE

GateNextNonStrict(c, silent, d) ==
    IF silent /\ d >= ExitSilenceDb(c) THEN FALSE
    ELSE IF (~silent) /\ d <= EnterSilenceDb(c) THEN TRUE
    ELSE silent

GateNext(c, silent, d) ==
    IF silent /\ d > ExitSilenceDb(c) THEN FALSE
    ELSE IF (~silent) /\ d < EnterSilenceDb(c) THEN TRUE
    ELSE silent

\* in_silence after the first k frames of s (in_silence = True before the loop)
RECURSIVE GateStateAfter(_, _, _)
GateStateAfter(c, s, k) ==
    IF k = 0 THEN TRUE
    ELSE GateNext(c, GateStateAfter(c, s, k - 1), s[k])

\* the mask the whole loop leaves in mask_voice
detect_activity(c, s) == [k \in 1..Len(s) |-> ~GateStateAfter(c, s, k)]

----------------------------------------------------------------------------
(* SilenceDetector.detect_activity: the framing *)

\* "win = int(self.window_ms * sr / 1000)", "hop = int(self.hop_ms * sr / 1000)"
frame_length(sr) == (WindowMs * sr) \div 1000
hop_length(sr) == (HopMs * sr) \div 1000

\* librosa.feature.rms(y, frame_length=win, hop_length=hop, center=True): y is
\* padded with win // 2 zeros at each end, then one frame of win samples is
\* taken every hop samples as long as a whole frame fits
RmsFrameCountUncentered(len, win, hop) == 1 + (len - win) \div hop

RmsFrameCount(len, win, hop) == 1 + ((len + 2 * (win \div 2)) - win) \div hop

----------------------------------------------------------------------------
(* SilenceDetector._squash_short_runs *)

\* "while j < n and m[j] == value: j += 1", from j
RECURSIVE RunEnd(_, _, _)
RunEnd(m, j, value) ==
    IF j <= Len(m) /\ m[j] = value THEN RunEnd(m, j + 1, value) ELSE j

\* "run_length > 0 and run_length < min_len"
IsShortRunInclusive(run_length, min_len) ==
    run_length > 0 /\ run_length <= min_len

IsShortRun(run_length, min_len) ==
    run_length > 0 /\ run_length < min_len

\* "m[i:j] = not value"
FlipRunShort(m, i, j, value) ==
    [k \in 1..Len(m) |-> IF i <= k /\ k < j - 1 THEN ~value ELSE m[k]]

FlipRun(m, i, j, value) ==
    [k \in 1..Len(m) |-> IF i <= k /\ k < j THEN ~value ELSE m[k]]

\* "m = mask.copy()": m is a new array, so the array passed in keeps its
\* elements when m is written
ArgumentAfterWriteShared(arg, m) == m

ArgumentAfterWrite(arg, m) == arg

\* "i = j if j > i else i + 1"
NextScanIndexByOne(i, j) == i + 1

NextScanIndexAtRunEnd(i, j) == j

NextScanIndex(i, j) == IF j > i THEN j ELSE i + 1

\* the loop "while i < n", from i, on the working copy m
RECURSIVE SquashLoop(_, _, _, _)
SquashLoop(m, i, min_len, value) ==
    IF i > Len(m) THEN m
    ELSE LET j == RunEnd(m, i, value)
             run_length == j - i
             m2 == IF IsShortRun(run_length, min_len)
                   THEN FlipRun(m, i, j, value)
                   ELSE m
         IN SquashLoop(m2, NextScanIndex(i, j), min_len, value)

squash_short_runs(m, min_len, value) == SquashLoop(m, 1, min_len, value)

----------------------------------------------------------------------------
(* SilenceDetector.apply_morphology *)

MinNoiseFramesFloor(c, hop) == c.min_noise_ms \div hop

MinNoiseFrames(c, hop) == CeilDiv(c.min_noise_ms, hop)

MinSilenceFramesFloor(c, hop) == c.min_silence_ms \div hop

MinSilenceFrames(c, hop) == CeilDiv(c.min_silence_ms, hop)

apply_morphology_silence_only(c, m, hop) ==
    squash_short_runs(m, MinSilenceFrames(c, hop), FALSE)

apply_morphology_swapped_lengths(c, m, hop) ==
    squash_short_runs(
        squash_short_runs(m, MinSilenceFrames(c, hop), TRUE),
        MinNoiseFrames(c, hop), FALSE)

apply_morphology_silence_first(c, m, hop) ==
    squash_short_runs(
        squash_short_runs(m, MinSilenceFrames(c, hop), FALSE),
        MinNoiseFrames(c, hop), TRUE)

apply_morphology(c, m, hop) ==
    squash_short_runs(
        squash_short_runs(m, MinNoiseFrames(c, hop), TRUE),
        MinSilenceFrames(c, hop), FALSE)

----------------------------------------------------------------------------
(* SilenceDetector.mask_to_intervals *)

\* times[i] for the 1-based position k
FrameTime(k, hop) == (k - 1) * hop

\* "start = max(0.0, times[i] - self.margin_ms / 1000)"
IntervalStartUnclamped(c, t) == t - c.margin_ms

IntervalStart(c, t) == Max(0, t - c.margin_ms)

\* "end = min(times[j-1] + hop_duration + self.margin_ms / 1000, total_duration)"
IntervalEndUnclamped(c, t, hop, total) == t + hop + c.margin_ms

IntervalEnd(c, t, hop, total) == Min(t + hop + c.margin_ms, total)

\* "if end > start"
KeepIntervalNonStrict(start, end) == end >= start

KeepInterval(start, end) == end > start

\* the loop "while i < len(mask)", from i, with the intervals appended so far
RECURSIVE IntervalsLoop(_, _, _, _, _, _)
IntervalsLoop(c, m, hop, total, i, acc) ==
    IF i > Len(m) THEN acc
    ELSE IF m[i]
         THEN LET j == RunEnd(m, i + 1, TRUE)
                  start == IntervalStart(c, FrameTime(i, hop))
                  end == IntervalEnd(c, FrameTime(j - 1, hop), hop, total)
              IN IntervalsLoop(c, m, hop, total, j,
                     IF KeepInterval(start, end)
                     THEN Append(acc, <<start, end>>) ELSE acc)
         ELSE IntervalsLoop(c, m, hop, total, i + 1, acc)

mask_to_intervals_merged(c, m, hop, total) ==
    LET ivs == IntervalsLoop(c, m, hop, total, 1, <<>>)
        touching == {k \in 1..(Len(ivs) - 1) : ivs[k + 1][1] <= ivs[k][2]}
    IN IF touching = {} THEN ivs
       ELSE LET k == CHOOSE t \in touching : \A u \in touching : t <= u
            IN SubSeq(ivs, 1, k - 1)
                   \o <<<<ivs[k][1], ivs[k + 1][2]>>>>
                   \o SubSeq(ivs, k + 2, Len(ivs))

mask_to_intervals(c, m, hop, total) == IntervalsLoop(c, m, hop, total, 1, <<>>)

----------------------------------------------------------------------------
(* VideoProcessor.generate_filter_complex and VideoProcessor.render *)

\* the two filters of interval number i (0-based), video first; the fade times
\* are relative to the trimmed segment; "{:.3f}" keeps whole milliseconds
SegmentFilters(iv, i) ==
    <<[op |-> "trim", start |-> iv[1], end |-> iv[2], fades |-> <<>>,
       out |-> <<"v", i>>],
      [op |-> "atrim", start |-> iv[1], end |-> iv[2],
       fades |-> <<[t |-> "in", st |-> 0, d |-> 3],
                   [t |-> "out", st |-> (iv[2] - iv[1]) - 3, d |-> 3]>>,
       out |-> <<"a", i>>]>>

RECURSIVE FiltersFrom(_, _)
FiltersFrom(ivs, k) ==
    IF k > Len(ivs) THEN <<>>
    ELSE SegmentFilters(ivs[k], k - 1) \o FiltersFrom(ivs, k + 1)

\* "outputs.extend([f"[v{i}]", f"[a{i}]"])"
SegmentOutputsAudioFirst(i) == <<<<"a", i>>, <<"v", i>>>>

SegmentOutputs(i) == <<<<"v", i>>, <<"a", i>>>>

RECURSIVE OutputsFrom(_, _)
OutputsFrom(ivs, k) ==
    IF k > Len(ivs) THEN <<>>
    ELSE SegmentOutputs(k - 1) \o OutputsFrom(ivs, k + 1)

\* raises ValueError on an empty list
generate_filter_complex(ivs) ==
    IF ivs = <<>>
    THEN [raised |-> TRUE, filters |-> <<>>]
    ELSE [raised |-> FALSE,
          filters |-> Append(FiltersFrom(ivs, 1),
                             [op |-> "concat", n |-> Len(ivs),
                              inputs |-> OutputsFrom(ivs, 1)])]

\* render(input_file, output_file, ivs); encoder_ok: subprocess.run(check=True)
\* returns (TRUE) or raises CalledProcessError (FALSE)
render(ivs, encoder_ok) ==
    IF ivs = <<>>
    THEN [result |-> "returned", calls |-> 0, plan |-> <<>>]
    ELSE LET fc == generate_filter_complex(ivs)
         IN IF fc.raised
            THEN [result |-> "raised", calls |-> 0, plan |-> <<>>]
            ELSE [result |-> IF encoder_ok THEN "returned" ELSE "raised",
                  calls |-> 1, plan |-> fc.filters]

----------------------------------------------------------------------------
(* The web application: jobs, exceptions, the state before any request *)

JobIds == 1..MaxJobs

\* no audio loaded
NoSignal == [len |-> 0, sr |-> 0]

\* Python's None in a field that otherwise holds a string
None == "None"

NoException == [type |-> None, msg |-> ""]

CalledProcessError ==
    [type |-> "CalledProcessError",
     msg |-> "Command returned non-zero exit status 1."]

MemoryError == [type |-> "MemoryError", msg |-> ""]

NoSegmentError == [type |-> "ValueError", msg |-> "Aucun segment audio détecté"]

FloatError ==
    [type |-> "ValueError", msg |-> "could not convert string to float: ''"]

\* what process() hands to its caller: lists that Spec reaches
DetectionResults == {<<>>, <<<<0, 50>>>>, <<<<0, 50>>, <<80, 120>>>>}

\* a datetime, to the hour, and the string isoformat() makes of it
datetime(h) == <<"datetime", h>>

isoformat(d) == <<"str", d[2]>>

fromisoformat(str) == <<"datetime", str[2]>>

\* a task that has not read jobs[job_id]
NoJob == [status |-> None]

NoResponse == [op |-> "none", job_id |-> 0, code |-> 0, file_size |-> 0]

\* jobs = load_jobs() with no jobs.json, the semaphore free, no task
WebIdle ==
    /\ jobs = <<>>
    /\ jobs_file = <<>>
    /\ semaphore = 1
    /\ files = [uploads |-> {}, outputs |-> {}]
    /\ now = 0
    /\ next_id = 1
    /\ cleanups = 0
    /\ response = NoResponse
    /\ task_job = [j \in JobIds |-> NoJob]
    /\ task_pc = [j \in JobIds |-> "none"]
    /\ task_intervals = [j \in JobIds |-> <<>>]
    /\ task_exc = [j \in JobIds |-> NoException]
    /\ task_renders = [j \in JobIds |-> 0]
    /\ task_encodes = [j \in JobIds |-> 0]

----------------------------------------------------------------------------
(* The gate, frame by frame *)

InitGate ==
    /\ pc = "gate"
    /\ cfg \in GateConfigs
    /\ db \in BoundedSeqs(DbLevels, MaxGateFrames)
    /\ idx = 0
    /\ in_silence = TRUE
    /\ mask_voice = [k \in 1..Len(db) |-> FALSE]
    /\ hop_duration = 0
    /\ total_duration = 0
    /\ mask = <<>>
    /\ intervals = <<>>
    /\ filter_complex = <<>>
    /\ render_result = "none"
    /\ encoder_calls = 0
    /\ exported = FALSE
    /\ signal = NoSignal
    /\ squash_in = <<>>
    /\ silences = <<>>
    /\ WebIdle

\* one iteration of "for i, d in enumerate(db)"
GateStep ==
    /\ pc = "gate"
    /\ idx < Len(db)
    /\ in_silence' = GateNext(cfg, in_silence, db[idx + 1])
    /\ mask_voice' = [mask_voice EXCEPT ![idx + 1] = ~in_silence']
    /\ idx' = idx + 1
    /\ UNCHANGED <<pc, cfg, db, hop_duration, total_duration, mask, intervals,
                   filter_complex, render_result, encoder_calls,
                   exported,
                   signal, squash_in,
                   silences>>
    /\ UNCHANGED webvars

\* "return mask_voice, hop / sr, len(y) / sr"
GateReturn ==
    /\ pc = "gate"
    /\ idx = Len(db)
    /\ pc' = "detected"
    /\ hop_duration' = HopMs
    /\ \E r \in SubHopRests :
          total_duration' = (Len(db) - 1) * HopMs + r
    /\ UNCHANGED <<cfg, db, idx, in_silence, mask_voice, mask, intervals,
                   filter_complex, render_result, encoder_calls,
                   exported,
                   signal, squash_in,
                   silences>>
    /\ UNCHANGED webvars

NextGate == GateStep \/ GateReturn

SpecGate == InitGate /\ [][NextGate]_vars

----------------------------------------------------------------------------
(* SilenceDetector.process, main() and a direct user of VideoProcessor *)

Constructed(cs) ==
    /\ pc = "constructed"
    /\ cfg \in cs
    /\ db = <<>>
    /\ idx = 0
    /\ in_silence = TRUE
    /\ mask_voice = <<>>
    /\ hop_duration = 0
    /\ total_duration = 0
    /\ mask = <<>>
    /\ intervals = <<>>
    /\ filter_complex = <<>>
    /\ render_result = "none"
    /\ encoder_calls = 0
    /\ exported = FALSE
    /\ signal = NoSignal
    /\ squash_in = <<>>
    /\ silences = <<>>
    /\ WebIdle

Init == Constructed(Configs)

\* extract_audio raises CalledProcessError (ffmpeg failed)
ExtractAudioFails ==
    /\ pc = "constructed"
    /\ pc' = "process_raised"
    /\ UNCHANGED <<cfg, db, idx, in_silence, mask_voice, hop_duration,
                   total_duration, mask, intervals, filter_complex,
                   render_result, encoder_calls,
                   exported,
                   signal, squash_in,
                   silences>>
    /\ UNCHANGED webvars

\* detect_activity on an audio of at most n frames
Detect(n) ==
    /\ pc = "constructed"
    /\ \E s \in BoundedSeqs(LoudnessLevels, n), r \in SubHopRests :
          /\ db' = s
          /\ idx' = Len(s)
          /\ in_silence' = GateStateAfter(cfg, s, Len(s))
          /\ mask_voice' = detect_activity(cfg, s)
          /\ total_duration' = (Len(s) - 1) * HopMs + r
    /\ hop_duration' = HopMs
    /\ pc' = "detected"
    /\ UNCHANGED <<cfg, mask, intervals, filter_complex, render_result,
                   encoder_calls,
                   exported,
                   signal, squash_in,
                   silences>>
    /\ UNCHANGED webvars

DetectActivity == Detect(MaxFrames)

\* "mask = self.apply_morphology(mask, hop_duration)"
ApplyMorphology ==
    /\ pc = "detected"
    /\ mask' = apply_morphology(cfg, mask_voice, hop_duration)
    /\ pc' = "cleaned"
    /\ UNCHANGED <<cfg, db, idx, in_silence, mask_voice, hop_duration,
                   total_duration, intervals, filter_complex, render_result,
                   encoder_calls,
                   exported,
                   signal, squash_in,
                   silences>>
    /\ UNCHANGED webvars

\* "intervals = self.mask_to_intervals(mask, hop_duration, total_duration)"
MaskToIntervals ==
    /\ pc = "cleaned"
    /\ intervals' = mask_to_intervals(cfg, mask, hop_duration, total_duration)
    /\ pc' = "extracted"
    /\ UNCHANGED <<cfg, db, idx, in_silence, mask_voice, hop_duration,
                   total_duration, mask, filter_complex, render_result,
                   encoder_calls,
                   exported,
                   signal, squash_in,
                   silences>>
    /\ UNCHANGED webvars

\* main: "if not intervals: ... sys.exit(1)"
MainNoIntervals ==
    /\ pc = "extracted"
    /\ intervals = <<>>
    /\ pc' = "exit1"
    /\ UNCHANGED <<cfg, db, idx, in_silence, mask_voice, hop_duration,
                   total_duration, mask, intervals, filter_complex,
                   render_result, encoder_calls,
                   exported,
                   signal, squash_in,
                   silences>>
    /\ UNCHANGED webvars

\* main: ffprobe fails (CalledProcessError), sys.exit(1)
MainProbeFails ==
    /\ pc = "extracted"
    /\ intervals # <<>>
    /\ pc' = "exit1"
    /\ UNCHANGED <<cfg, db, idx, in_silence, mask_voice, hop_duration,
                   total_duration, mask, intervals, filter_complex,
                   render_result, encoder_calls,
                   exported,
                   signal, squash_in,
                   silences>>
    /\ UNCHANGED webvars

\* main with --dry-run: the intervals are exported if asked, no render
MainDryRun ==
    /\ pc = "extracted"
    /\ intervals # <<>>
    /\ pc' = "exit0"
    /\ \E export_intervals \in BOOLEAN : exported' = export_intervals
    /\ UNCHANGED <<cfg, db, idx, in_silence, mask_voice, hop_duration,
                   total_duration, mask, intervals, filter_complex,
                   render_result, encoder_calls,
                   signal, squash_in,
                   silences>>
    /\ UNCHANGED webvars

\* main: the export if asked, then
\* "processor.render(args.input, args.output, intervals)"
MainRender ==
    /\ pc = "extracted"
    /\ intervals # <<>>
    /\ \E encoder_ok \in BOOLEAN :
          LET r == render(intervals, encoder_ok)
          IN /\ render_result' = r.result
             /\ encoder_calls' = encoder_calls + r.calls
             /\ filter_complex' = r.plan
             /\ pc' = IF r.result = "returned" THEN "exit0" ELSE "exit1"
    /\ \E export_intervals \in BOOLEAN : exported' = export_intervals
    /\ UNCHANGED <<cfg, db, idx, in_silence, mask_voice, hop_duration,
                   total_duration, mask, intervals,
                   signal, squash_in,
                   silences>>
    /\ UNCHANGED webvars

\* a user of the classes: process() then render(), with no check in between
LibRender ==
    /\ pc = "extracted"
    /\ \E encoder_ok \in BOOLEAN :
          LET r == render(intervals, encoder_ok)
          IN /\ render_result' = r.result
             /\ encoder_calls' = encoder_calls + r.calls
             /\ filter_complex' = r.plan
             /\ pc' = IF r.result = "returned" THEN "lib_returned" ELSE "lib_raised"
    /\ UNCHANGED <<cfg, db, idx, in_silence, mask_voice, hop_duration,
                   total_duration, mask, intervals,
                   exported,
                   signal, squash_in,
                   silences>>
    /\ UNCHANGED webvars

Next ==
    \/ ExtractAudioFails
    \/ DetectActivity
    \/ ApplyMorphology
    \/ MaskToIntervals
    \/ MainNoIntervals
    \/ MainProbeFails
    \/ MainDryRun
    \/ MainRender
    \/ LibRender

Spec == Init /\ [][Next]_vars

----------------------------------------------------------------------------
(* process() with the parameters of a web request (the librosa detector) *)

InitRequest == Constructed(RequestConfigs)

DetectActivityRequest == Detect(MaxRequestFrames)

NextRequest ==
    \/ DetectActivityRequest
    \/ ApplyMorphology
    \/ MaskToIntervals

SpecRequest == InitRequest /\ [][NextRequest]_vars

----------------------------------------------------------------------------
(* The web application: upload, process request, process_video_task *)

InitWeb ==
    /\ pc = "web"
    /\ cfg = Config(ThresholdDb, HysteresisDb, MinSilenceMs, MinNoiseMs, MarginMs)
    /\ db = <<>>
    /\ idx = 0
    /\ in_silence = TRUE
    /\ mask_voice = <<>>
    /\ hop_duration = 0
    /\ total_duration = 0
    /\ mask = <<>>
    /\ intervals = <<>>
    /\ filter_complex = <<>>
    /\ render_result = "none"
    /\ encoder_calls = 0
    /\ exported = FALSE
    /\ signal = NoSignal
    /\ squash_in = <<>>
    /\ silences = <<>>
    /\ WebIdle

\* persist_jobs.save_jobs: what json.dump writes, created_at as a string
save_jobs(js) ==
    [k \in DOMAIN js |->
        IF js[k].created_at[1] = "datetime"
           THEN [js[k] EXCEPT !.created_at = isoformat(@)]
           ELSE js[k]]

\* persist_jobs.load_jobs on the file that save_jobs wrote
load_jobs_raw(file) == file

load_jobs(file) ==
    [k \in DOMAIN file |->
        IF file[k].created_at[1] = "str"
           THEN [file[k] EXCEPT !.created_at = fromisoformat(@)]
           ELSE file[k]]

\* the job that upload_video creates at time t (no "params" key yet)
UploadedJob(t) ==
    [status |-> "uploaded", progress |-> 0, error |-> None,
     output_file |-> None, created_at |-> datetime(t), params |-> None]

\* "jobs[job_id] = {...}"
WithJob(js, j, job) ==
    [k \in (DOMAIN js) \cup {j} |-> IF k = j THEN job ELSE js[k]]

\* "del jobs[job_id]" for every id of gone
WithoutJobs(js, gone) == [k \in (DOMAIN js) \ gone |-> js[k]]

\* sizes of an uploaded file, in chunks of 1 MB
UploadSizes == {1, MAX_FILE_SIZE, MAX_FILE_SIZE + 1}

\* the parameters of a process request: the defaults, and a louder threshold
RequestParams ==
    {Config(ThresholdDb, HysteresisDb, MinSilenceMs, MinNoiseMs, MarginMs),
     Config(ThresholdDb + 10, HysteresisDb, MinSilenceMs, MinNoiseMs, MarginMs)}

\* the answer to a request: its status code, with the job id of the request
\* or of the new job; an upload is answered with the size that was read
Answer(op, j, code) ==
    [op |-> op, job_id |-> j, code |-> code, file_size |-> 0]

UploadAnswer(j, code, size) ==
    [op |-> "upload", job_id |-> j, code |-> code, file_size |-> size]

\* the "except MemoryError" and "except Exception as e" blocks
HandleExceptionKeepsProgress(job, e) ==
    [job EXCEPT !.status = "failed",
                !.error = IF e.type = "MemoryError"
                          THEN "Mémoire insuffisante. Essayez un fichier plus petit (max 50MB)."
                          ELSE e.msg]

HandleException(job, e) ==
    [job EXCEPT !.status = "failed",
                !.progress = 0,
                !.error = IF e.type = "MemoryError"
                          THEN "Mémoire insuffisante. Essayez un fichier plus petit (max 50MB)."
                          ELSE e.msg]

\* process_video_task: "if not intervals"
TaskSeesSegmentsAlways(ivs) == FALSE

TaskSeesNoSegments(ivs) == ivs = <<>>

\* process_video: "if job['status'] != 'uploaded': raise HTTPException(400"
ProcessAcceptsAnyStatus(job) == TRUE

ProcessAcceptsUnfinished(job) == job.status \in {"uploaded", "failed"}

ProcessAccepts(job) == job.status = "uploaded"

\* download_result: "if job['status'] != 'completed': raise HTTPException(400"
DownloadAcceptsFinished(job) == job.status \in {"completed", "failed"}

DownloadAccepts(job) == job.status = "completed"

\* PROCESSING_SEMAPHORE.release()
SemaphoreReleasedTwice(v) == v + 2

SemaphoreReleased(v) == v + 1

\* the task writes to its dict "job" and calls save_jobs(jobs): the dict is
\* the one in jobs unless cleanup_old_files has deleted the entry since
TaskWrites(j, job) ==
    /\ task_job' = [task_job EXCEPT ![j] = job]
    /\ jobs' = IF j \in DOMAIN jobs THEN [jobs EXCEPT ![j] = job] ELSE jobs
    /\ jobs_file' = save_jobs(jobs')

\* the try block raises e at task j: the handler runs, up to its await
TaskRaises(j, e) ==
    /\ TaskWrites(j, HandleException(task_job[j], e))
    /\ task_exc' = [task_exc EXCEPT ![j] = e]
    /\ task_pc' = [task_pc EXCEPT ![j] = "finally"]

\* the first lines of the try block: "processing", progress 10, saved
TaskEntersTry(j, job) ==
    /\ semaphore' = semaphore - 1
    /\ TaskWrites(j, [job EXCEPT !.status = "processing", !.progress = 10])
    /\ task_pc' = [task_pc EXCEPT ![j] = "begun"]

\* POST /upload: a wrong extension is refused; a file over MAX_FILE_SIZE is
\* removed and the HTTPException(413) raised inside the try block is caught
\* by its "except Exception" and answered as 500; else a new job under a
\* fresh id, saved, and a cleanup_old_files task scheduled
UploadVideo(j) ==
    /\ pc = "web"
    /\ \E extension_ok \in BOOLEAN, file_size \in UploadSizes :
          IF ~extension_ok
             THEN /\ response' = Answer("upload", 0, 400)
                  /\ UNCHANGED <<jobs, jobs_file, files, next_id, cleanups>>
             ELSE IF file_size > MAX_FILE_SIZE
             THEN /\ response' = UploadAnswer(0, 500, file_size)
                  /\ UNCHANGED <<jobs, jobs_file, files, next_id, cleanups>>
             ELSE /\ j = next_id
                  /\ jobs' = WithJob(jobs, j, UploadedJob(now))
                  /\ jobs_file' = save_jobs(jobs')
                  /\ files' = [files EXCEPT !.uploads = @ \cup {j}]
                  /\ next_id' = next_id + 1
                  /\ cleanups' = cleanups + 1
                  /\ response' = UploadAnswer(j, 200, file_size)
    /\ UNCHANGED <<semaphore, now, task_pc, task_job, task_intervals, task_exc,
                   task_renders, task_encodes>>
    /\ UNCHANGED corevars

\* POST /process/{job_id}: 404 for an id not in jobs, 400 for a job that is not
\* "uploaded"; else pending, the parameters stored, saved, the task scheduled
ProcessVideo(j) ==
    /\ pc = "web"
    /\ \E params \in RequestParams :
          IF j \notin DOMAIN jobs
             THEN /\ response' = Answer("process", j, 404)
                  /\ UNCHANGED <<jobs, jobs_file, task_pc>>
             ELSE IF ~ProcessAccepts(jobs[j])
             THEN /\ response' = Answer("process", j, 400)
                  /\ UNCHANGED <<jobs, jobs_file, task_pc>>
             ELSE /\ jobs' = [jobs EXCEPT ![j].status = "pending",
                                          ![j].params = params]
                  /\ jobs_file' = save_jobs(jobs')
                  /\ task_pc' = [task_pc EXCEPT ![j] = "scheduled"]
                  /\ response' = Answer("process", j, 200)
    /\ UNCHANGED <<semaphore, files, now, next_id, cleanups, task_job,
                   task_intervals, task_exc, task_renders, task_encodes>>
    /\ UNCHANGED corevars

\* GET /download/{job_id}
DownloadResult(j) ==
    /\ pc = "web"
    /\ response' =
          IF j \notin DOMAIN jobs THEN Answer("download", j, 404)
          ELSE IF ~DownloadAccepts(jobs[j]) THEN Answer("download", j, 400)
          ELSE IF j \notin files.outputs THEN Answer("download", j, 404)
          ELSE Answer("download", j, 200)
    /\ UNCHANGED <<jobs, jobs_file, semaphore, files, now, next_id, cleanups,
                   task_pc, task_job, task_intervals, task_exc, task_renders,
                   task_encodes>>
    /\ UNCHANGED corevars

\* the jobs cleanup_old_files deletes at time t
OldJobs(js, t) ==
    {k \in DOMAIN js : js[k].created_at[2] < t - CLEANUP_AFTER_HOURS}

\* a scheduled cleanup_old_files runs: the files of the old jobs are
\* unlinked, the jobs deleted, the rest saved
CleanupOldFiles ==
    /\ pc = "web"
    /\ cleanups > 0
    /\ cleanups' = cleanups - 1
    /\ LET old == OldJobs(jobs, now)
       IN /\ files' = [uploads |-> files.uploads \ old,
                       outputs |-> files.outputs \
                                      {k \in old : jobs[k].output_file # None}]
          /\ jobs' = WithoutJobs(jobs, old)
          /\ jobs_file' = save_jobs(jobs')
    /\ response' = NoResponse
    /\ UNCHANGED <<semaphore, now, next_id, task_pc, task_job,
                   task_intervals, task_exc, task_renders, task_encodes>>
    /\ UNCHANGED corevars

\* hours the clock advances at once: to the age at which cleanup_old_files
\* still keeps a job, or an hour past it
ClockSteps == {CLEANUP_AFTER_HOURS, CLEANUP_AFTER_HOURS + 1}

\* time passes
Tick ==
    /\ pc = "web"
    /\ \E h \in ClockSteps :
          /\ now + h <= MaxClock
          /\ now' = now + h
    /\ response' = NoResponse
    /\ UNCHANGED <<jobs, jobs_file, semaphore, files, next_id, cleanups,
                   task_pc, task_job, task_intervals, task_exc,
                   task_renders, task_encodes>>
    /\ UNCHANGED corevars

\* the server process ends and a new one starts: "jobs = load_jobs()", a new
\* Semaphore(1), and none of the tasks of the old process
Restart ==
    /\ pc = "web"
    /\ jobs' = load_jobs(jobs_file)
    /\ semaphore' = 1
    /\ cleanups' = 0
    /\ task_pc' = [j \in JobIds |-> "none"]
    /\ task_job' = [j \in JobIds |-> NoJob]
    /\ task_intervals' = [j \in JobIds |-> <<>>]
    /\ task_exc' = [j \in JobIds |-> NoException]
    /\ task_renders' = [j \in JobIds |-> 0]
    /\ task_encodes' = [j \in JobIds |-> 0]
    /\ response' = NoResponse
    /\ UNCHANGED <<jobs_file, files, now, next_id>>
    /\ UNCHANGED corevars

\* the task starts: "job = jobs[job_id]" (a KeyError ends the task), then
\* acquire(), which returns at once when the semaphore is free
TaskStart(j) ==
    /\ pc = "web"
    /\ task_pc[j] = "scheduled"
    /\ IF j \notin DOMAIN jobs
          THEN /\ task_pc' = [task_pc EXCEPT ![j] = "crashed"]
               /\ UNCHANGED <<jobs, jobs_file, semaphore, task_job>>
          ELSE IF semaphore > 0
          THEN TaskEntersTry(j, jobs[j])
          ELSE /\ task_job' = [task_job EXCEPT ![j] = jobs[j]]
               /\ task_pc' = [task_pc EXCEPT ![j] = "waiting"]
               /\ UNCHANGED <<jobs, jobs_file, semaphore>>
    /\ response' = NoResponse
    /\ UNCHANGED <<files, now, next_id, cleanups, task_intervals,
                   task_exc, task_renders, task_encodes>>
    /\ UNCHANGED corevars

\* a waiting task gets the semaphore
TaskBegin(j) ==
    /\ pc = "web"
    /\ task_pc[j] = "waiting"
    /\ semaphore > 0
    /\ TaskEntersTry(j, task_job[j])
    /\ response' = NoResponse
    /\ UNCHANGED <<files, now, next_id, cleanups, task_intervals,
                   task_exc, task_renders, task_encodes>>
    /\ UNCHANGED corevars

\* the detector runs: it returns a list (progress 30, saved) or raises; it
\* raises when the uploaded file is gone
TaskDetect(j) ==
    /\ pc = "web"
    /\ task_pc[j] = "begun"
    /\ \/ /\ j \in files.uploads
          /\ \E ivs \in DetectionResults :
                /\ task_intervals' = [task_intervals EXCEPT ![j] = <<ivs>>]
                /\ TaskWrites(j, [task_job[j] EXCEPT !.progress = 30])
                /\ task_pc' = [task_pc EXCEPT ![j] = "detected"]
                /\ UNCHANGED task_exc
       \/ \E e \in {CalledProcessError, MemoryError} :
             /\ TaskRaises(j, e)
             /\ UNCHANGED task_intervals
    /\ response' = NoResponse
    /\ UNCHANGED <<semaphore, files, now, next_id, cleanups,
                   task_renders, task_encodes>>
    /\ UNCHANGED corevars

\* "if not intervals: raise ValueError(...)", else progress 60, saved
TaskCheck(j) ==
    /\ pc = "web"
    /\ task_pc[j] = "detected"
    /\ IF TaskSeesNoSegments(task_intervals[j][1])
          THEN TaskRaises(j, NoSegmentError)
          ELSE /\ TaskWrites(j, [task_job[j] EXCEPT !.progress = 60])
               /\ task_pc' = [task_pc EXCEPT ![j] = "rendering"]
               /\ UNCHANGED task_exc
    /\ response' = NoResponse
    /\ UNCHANGED <<semaphore, files, now, next_id, cleanups,
                   task_intervals, task_renders, task_encodes>>
    /\ UNCHANGED corevars

\* processor.render, the two ffprobe calls, then "completed", saved; the
\* encoder fails when the uploaded file is gone
TaskRender(j) ==
    /\ pc = "web"
    /\ task_pc[j] = "rendering"
    /\ \E encoder_ok \in {b \in BOOLEAN : b => j \in files.uploads},
          probe \in {NoException, CalledProcessError, FloatError} :
          LET r == render(task_intervals[j][1], encoder_ok)
          IN /\ task_renders' = [task_renders EXCEPT ![j] = @ + 1]
             /\ task_encodes' = [task_encodes EXCEPT ![j] = @ + r.calls]
             /\ IF r.result = "raised"
                   THEN /\ TaskRaises(j, IF r.calls = 0
                                            THEN [type |-> "ValueError",
                                                  msg |-> "Aucun intervalle à garder!"]
                                            ELSE CalledProcessError)
                        /\ UNCHANGED files
                   ELSE /\ files' = [files EXCEPT !.outputs = @ \cup {j}]
                        /\ IF probe # NoException
                              THEN TaskRaises(j, probe)
                              ELSE /\ TaskWrites(j,
                                        [task_job[j] EXCEPT
                                            !.status = "completed",
                                            !.progress = 100,
                                            !.output_file = "outputs/job_processed.mp4"])
                                   /\ task_pc' = [task_pc EXCEPT ![j] = "finally"]
                                   /\ UNCHANGED task_exc
    /\ response' = NoResponse
    /\ UNCHANGED <<semaphore, now, next_id, cleanups, task_intervals>>
    /\ UNCHANGED corevars

\* "finally: PROCESSING_SEMAPHORE.release()", and the task ends, its locals
\* with it
TaskRelease(j) ==
    /\ pc = "web"
    /\ task_pc[j] = "finally"
    /\ semaphore' = SemaphoreReleased(semaphore)
    /\ task_pc' = [task_pc EXCEPT ![j] = "done"]
    /\ task_job' = [task_job EXCEPT ![j] = NoJob]
    /\ task_intervals' = [task_intervals EXCEPT ![j] = <<>>]
    /\ task_exc' = [task_exc EXCEPT ![j] = NoException]
    /\ task_renders' = [task_renders EXCEPT ![j] = 0]
    /\ task_encodes' = [task_encodes EXCEPT ![j] = 0]
    /\ response' = NoResponse
    /\ UNCHANGED <<jobs, jobs_file, files, now, next_id, cleanups>>
    /\ UNCHANGED corevars

TaskStep(j) ==
    \/ TaskStart(j)
    \/ TaskBegin(j)
    \/ TaskDetect(j)
    \/ TaskCheck(j)
    \/ TaskRender(j)
    \/ TaskRelease(j)

NextWeb ==
    \/ \E j \in JobIds :
          \/ UploadVideo(j)
          \/ ProcessVideo(j)
          \/ DownloadResult(j)
          \/ TaskStep(j)
    \/ CleanupOldFiles
    \/ Tick
    \/ Restart

SpecWeb == InitWeb /\ [][NextWeb]_vars

\* the event loop runs every task that can run, and every scheduled cleanup
SpecWebFair ==
    /\ SpecWeb
    /\ \A j \in JobIds : WF_vars(TaskStep(j))
    /\ WF_vars(CleanupOldFiles)

\* either program: the command line on one input, or the web application
InitAll == Init \/ InitWeb

NextAll == Next \/ NextWeb

SpecAll == InitAll /\ [][NextAll]_vars

----------------------------------------------------------------------------
(* The loops of _squash_short_runs (both passes) and mask_to_intervals, one
   iteration of "while i < n" at a time; idx is the code's i, counted from 0,
   mask is the working copy m, mask_voice the array given to apply_morphology *)

\* minimum lengths of -1, 0, 2 and 3 frames
LoopConfigs ==
    {Config(ThresholdDb, HysteresisDb, ms, mn, mg) :
        ms \in {-10, 0, 30}, mn \in {-10, 0, 20}, mg \in {0, MarginMs}}

InitLoops ==
    /\ pc = "squash_true"
    /\ cfg \in LoopConfigs
    /\ db = <<>>
    /\ idx = 0
    /\ in_silence = TRUE
    /\ mask_voice \in {<<>>} \cup BoundedSeqs(BOOLEAN, MaxLoopFrames)
    /\ mask = mask_voice
    /\ hop_duration = HopMs
    /\ \E r \in SubHopRests :
          total_duration = IF mask_voice = <<>> THEN 0
                           ELSE (Len(mask_voice) - 1) * HopMs + r
    /\ intervals = <<>>
    /\ filter_complex = <<>>
    /\ render_result = "none"
    /\ encoder_calls = 0
    /\ exported = FALSE
    /\ signal = NoSignal
    /\ squash_in = mask_voice
    /\ silences = <<>>
    /\ WebIdle

\* the value and min_len of the pass of _squash_short_runs that is running
PassValue == pc = "squash_true"

PassMinLen ==
    IF pc = "squash_true" THEN MinNoiseFrames(cfg, hop_duration)
    ELSE MinSilenceFrames(cfg, hop_duration)

\* one iteration of "while i < n" in _squash_short_runs
SquashIterate ==
    /\ pc \in {"squash_true", "squash_false"}
    /\ idx < Len(mask)
    /\ LET i == idx + 1
           j == RunEnd(mask, i, PassValue)
       IN /\ mask' = IF IsShortRun(j - i, PassMinLen)
                     THEN FlipRun(mask, i, j, PassValue)
                     ELSE mask
          /\ idx' = NextScanIndex(i, j) - 1
    /\ squash_in' = ArgumentAfterWrite(squash_in, mask')
    /\ mask_voice' = IF pc = "squash_true" THEN squash_in' ELSE mask_voice
    /\ UNCHANGED <<pc, cfg, db, in_silence, hop_duration, total_duration,
                   intervals, filter_complex, render_result, encoder_calls,
                   exported, signal, silences>>
    /\ UNCHANGED webvars

\* "return m": the second pass starts on the array returned, or
\* mask_to_intervals after it
SquashReturn ==
    /\ pc \in {"squash_true", "squash_false"}
    /\ idx >= Len(mask)
    /\ pc' = IF pc = "squash_true" THEN "squash_false" ELSE "intervals_loop"
    /\ idx' = 0
    /\ squash_in' = IF pc = "squash_true" THEN mask ELSE squash_in
    /\ UNCHANGED <<cfg, db, in_silence, mask_voice, hop_duration,
                   total_duration, mask, intervals, filter_complex,
                   render_result, encoder_calls, exported, signal, silences>>
    /\ UNCHANGED webvars

\* one iteration of "while i < len(mask)" in mask_to_intervals
IntervalsIterate ==
    /\ pc = "intervals_loop"
    /\ idx < Len(mask)
    /\ IF mask[idx + 1]
          THEN LET i == idx + 1
                   j == RunEnd(mask, i + 1, TRUE)
                   start == IntervalStart(cfg, FrameTime(i, hop_duration))
                   end == IntervalEnd(cfg, FrameTime(j - 1, hop_duration),
                                      hop_duration, total_duration)
               IN /\ intervals' = IF KeepInterval(start, end)
                                  THEN Append(intervals, <<start, end>>)
                                  ELSE intervals
                  /\ idx' = j - 1
          ELSE /\ idx' = idx + 1
               /\ UNCHANGED intervals
    /\ UNCHANGED <<pc, cfg, db, in_silence, mask_voice, hop_duration,
                   total_duration, mask, filter_complex, render_result,
                   encoder_calls, exported, signal, squash_in, silences>>
    /\ UNCHANGED webvars

\* "return intervals"
IntervalsReturn ==
    /\ pc = "intervals_loop"
    /\ idx >= Len(mask)
    /\ pc' = "loops_returned"
    /\ UNCHANGED <<cfg, db, idx, in_silence, mask_voice, hop_duration,
                   total_duration, mask, intervals, filter_complex,
                   render_result, encoder_calls, exported,
                   signal, squash_in,
                   silences>>
    /\ UNCHANGED webvars

NextLoops ==
    \/ SquashIterate
    \/ SquashReturn
    \/ IntervalsIterate
    \/ IntervalsReturn

SpecLoops == InitLoops /\ [][NextLoops]_vars

\* a running Python function keeps running: its next step is always taken
SpecLoopsFair == SpecLoops /\ WF_vars(NextLoops)

----------------------------------------------------------------------------
(* detect_activity up to the gate: a silent audio of signal.len samples *)

InitFrames ==
    /\ pc = "loaded"
    /\ cfg = Config(ThresholdDb, HysteresisDb, MinSilenceMs, MinNoiseMs, MarginMs)
    /\ signal \in [len : 1..MaxSamples, sr : SampleRates]
    /\ db = <<>>
    /\ idx = 0
    /\ in_silence = TRUE
    /\ mask_voice = <<>>
    /\ hop_duration = 0
    /\ total_duration = 0
    /\ mask = <<>>
    /\ intervals = <<>>
    /\ filter_complex = <<>>
    /\ render_result = "none"
    /\ encoder_calls = 0
    /\ exported = FALSE
    /\ squash_in = <<>>
    /\ silences = <<>>
    /\ WebIdle

\* "rms = librosa.feature.rms(...)[0]", "db = 20 * np.log10(rms + 1e-9)",
\* "mask_voice = np.zeros_like(db, dtype=bool)"
FrameAudio ==
    /\ pc = "loaded"
    /\ LET n == RmsFrameCount(signal.len, frame_length(signal.sr),
                              hop_length(signal.sr))
       IN /\ db' = [k \in 1..n |-> FloorDb]
          /\ mask_voice' = [k \in 1..n |-> FALSE]
    /\ pc' = "framed"
    /\ UNCHANGED <<cfg, idx, in_silence, hop_duration, total_duration, mask,
                   intervals, filter_complex, render_result, encoder_calls,
                   exported, signal, squash_in,
                   silences>>
    /\ UNCHANGED webvars

NextFrames == FrameAudio

SpecFrames == InitFrames /\ [][NextFrames]_vars

----------------------------------------------------------------------------
(* FFmpegSilenceDetectorFast.get_audio_segments: times in ms *)

\* "if end - start > 0.1"
MinSegmentMs == 100

\* the grid of the times given to the detector: half the shortest segment
FastStepMs == MinSegmentMs \div 2

FastTimes == {t * FastStepMs : t \in 0..MaxFastSteps}

\* the detector's fields: margin_ms up to twice the shortest silence
FastConfigs ==
    {[threshold_db |-> ThresholdDb, min_silence_duration |-> FastStepMs,
      margin_s |-> mg] : mg \in {0, MarginMs, FastStepMs, 2 * FastStepMs}}

\* lists of at most n silences <<start, end>> of positive length in
\* [0, duration], in order, none overlapping the next
RECURSIVE SilenceLists(_, _, _)
SilenceLists(from, duration, n) ==
    {<<>>} \cup
    (IF n = 0 THEN {}
     ELSE UNION {UNION {{<<<<a, b>>>> \o rest :
                            rest \in SilenceLists(b, duration, n - 1)} :
                           b \in {t \in FastTimes : t > a /\ t <= duration}} :
                    a \in {t \in FastTimes : t >= from /\ t < duration}})

\* "if silences[0][0] > 0: segments.append((0, silences[0][0] + self.margin_s))"
FirstSegment(sil, duration, margin) ==
    IF sil[1][1] > 0 THEN <<<<0, sil[1][1] + margin>>>> ELSE <<>>

\* "for i in range(len(silences) - 1)", from i (counted from 1)
RECURSIVE MiddleSegments(_, _, _, _)
MiddleSegments(sil, i, duration, margin) ==
    IF i > Len(sil) - 1 THEN <<>>
    ELSE LET start == Max(0, sil[i][2] - margin)
             end == Min(duration, sil[i + 1][1] + margin)
         IN (IF end - start > MinSegmentMs THEN <<<<start, end>>>> ELSE <<>>)
                \o MiddleSegments(sil, i + 1, duration, margin)

\* "if silences[-1][1] < duration"
LastSegment(sil, duration, margin) ==
    IF sil[Len(sil)][2] < duration
       THEN <<<<Max(0, sil[Len(sil)][2] - margin), duration>>>>
       ELSE <<>>

get_audio_segments(sil, duration, margin) ==
    IF sil = <<>> THEN <<<<0, duration>>>>
    ELSE FirstSegment(sil, duration, margin)
             \o MiddleSegments(sil, 1, duration, margin)
             \o LastSegment(sil, duration, margin)

\* ffprobe has given the duration and detect_silence the silences
InitFast ==
    /\ pc = "fast_detected"
    /\ cfg \in FastConfigs
    /\ total_duration \in FastTimes \ {0}
    /\ silences \in SilenceLists(0, total_duration, MaxSilences)
    /\ db = <<>>
    /\ idx = 0
    /\ in_silence = TRUE
    /\ mask_voice = <<>>
    /\ hop_duration = 0
    /\ mask = <<>>
    /\ intervals = <<>>
    /\ filter_complex = <<>>
    /\ render_result = "none"
    /\ encoder_calls = 0
    /\ exported = FALSE
    /\ signal = NoSignal
    /\ squash_in = <<>>
    /\ WebIdle

\* the rest of get_audio_segments: the segments between the silences
GetAudioSegments ==
    /\ pc = "fast_detected"
    /\ pc' = "fast_returned"
    /\ intervals' = get_audio_segments(silences, total_duration, cfg.margin_s)
    /\ UNCHANGED <<cfg, db, idx, in_silence, mask_voice, hop_duration,
                   total_duration, mask, filter_complex, render_result,
                   encoder_calls, exported, signal, squash_in, silences>>
    /\ UNCHANGED webvars

NextFast == GetAudioSegments

SpecFast == InitFast /\ [][NextFast]_vars

----------------------------------------------------------------------------
(* Vocabulary of the properties *)

\* apply_morphology has just returned
Cleaned == pc = "cleaned"

\* mask_to_intervals has just returned: the result of process()
Extracted == pc = "extracted"

\* render has been called
RenderCalled == pc \in {"exit0", "exit1", "lib_returned", "lib_raised"}
                    /\ (render_result # "none" \/ pc \in {"lib_returned", "lib_raised"})

\* the activity of the frame before frame k: Silence before the first frame
ActiveBefore(m, k) == IF k = 1 THEN FALSE ELSE m[k - 1]

\* the length of the maximal run of equal values that holds position k
RunLengthAt(m, k) ==
    Cardinality({p \in 1..Len(m) :
                    \A q \in Min(p, k)..Max(p, k) : m[q] = m[k]})

\* every maximal run of v shorter than min_len flipped, the rest untouched
FlipShortRuns(m, min_len, v) ==
    [k \in 1..Len(m) |->
        IF m[k] = v /\ RunLengthAt(m, k) < min_len THEN ~v ELSE m[k]]

\* the least number of hops that covers ms milliseconds
FramesCovering(ms, hop) ==
    CHOOSE f \in 0..(ms + 1) : f * hop >= ms /\ (f = 0 \/ (f - 1) * hop < ms)

\* the maximal runs of m in order, each as <<value, length>>
RECURSIVE RunsFrom(_, _)
RunsFrom(m, k) ==
    IF k > Len(m) THEN <<>>
    ELSE LET len == Cardinality({p \in k..Len(m) : \A q \in k..p : m[q] = m[k]})
         IN <<<<m[k], len>>>> \o RunsFrom(m, k + len)

Runs(m) == RunsFrom(m, 1)

AllFalse(m) == \A k \in 1..Len(m) : ~m[k]

\* the maximal true runs of m in order, each as <<i, j>>: frames [i, j),
\* counted from 0
RECURSIVE TrueRunsFrom(_, _, _)
TrueRunsFrom(rs, k, first) ==
    IF k > Len(rs) THEN <<>>
    ELSE (IF rs[k][1] THEN <<<<first, first + rs[k][2]>>>> ELSE <<>>)
             \o TrueRunsFrom(rs, k + 1, first + rs[k][2])

TrueRuns(m) == TrueRunsFrom(Runs(m), 1, 0)

\* the interval the extraction formula gives to the true run [i, j)
FormulaInterval(run, margin, hop, total) ==
    <<Max(0, run[1] * hop - margin), Min(total, run[2] * hop + margin)>>

\* the intervals of positive length among ivs, from the k-th on, in order
RECURSIVE SelectIntervals(_, _)
SelectIntervals(ivs, k) ==
    IF k > Len(ivs) THEN <<>>
    ELSE (IF ivs[k][2] > ivs[k][1] THEN <<ivs[k]>> ELSE <<>>)
             \o SelectIntervals(ivs, k + 1)

----------------------------------------------------------------------------
(* Properties *)

\* C1: starting in Silence, the state after each frame is Active iff the
\* state before was Silence and db > threshold + hysteresis, or it was Active
\* and db is not < threshold - hysteresis; mask[i] is the state after frame i.
C1_HysteresisGate ==
    /\ in_silence = (IF idx = 0 THEN TRUE ELSE ~mask_voice[idx])
    /\ \A k \in 1..idx :
          LET enter == cfg.threshold_db - cfg.hysteresis_db
              exit == cfg.threshold_db + cfg.hysteresis_db
              before == ActiveBefore(mask_voice, k)
          IN mask_voice[k] <=>
                \/ (~before /\ db[k] > exit)
                \/ (before /\ ~(db[k] < enter))

\* the gate rose, held inside the band and fell
C1_Witness ==
    /\ pc = "detected"
    /\ cfg.hysteresis_db = 3
    /\ Len(db) = 4
    /\ db[3] = -40
    /\ mask_voice = <<FALSE, TRUE, TRUE, FALSE>>

\* C2: a frame whose loudness lies between enter_silence_db and
\* exit_silence_db (bounds included) leaves the gate in the state it was in.
C2_HoleResistance ==
    \A k \in 1..idx :
        (/\ db[k] >= cfg.threshold_db - cfg.hysteresis_db
         /\ db[k] <= cfg.threshold_db + cfg.hysteresis_db)
        => mask_voice[k] = ActiveBefore(mask_voice, k)

\* a frame on the exit bound while silent, a frame on the enter bound while active
C2_Witness ==
    /\ idx >= 3
    /\ cfg.hysteresis_db = 3
    /\ db[1] = -37 /\ ~mask_voice[1]
    /\ db[2] = -30 /\ mask_voice[2]
    /\ db[3] = -43 /\ mask_voice[3]

\* C3: apply_morphology flips every maximal run of true shorter than
\* min_noise_frames, then, on that result, every maximal run of false shorter
\* than min_silence_frames; longer runs are untouched.
C3_TwoPasses ==
    Cleaned =>
        mask = FlipShortRuns(
                   FlipShortRuns(mask_voice,
                                 FramesCovering(cfg.min_noise_ms, hop_duration),
                                 TRUE),
                   FramesCovering(cfg.min_silence_ms, hop_duration), FALSE)

\* both passes flipped a run and runs of both values survive
C3_Witness ==
    /\ pc = "cleaned"
    /\ LET first == FlipShortRuns(mask_voice,
                        FramesCovering(cfg.min_noise_ms, hop_duration), TRUE)
       IN /\ first # mask_voice
          /\ mask # first
          /\ \E k \in 1..Len(mask) : mask[k] /\ mask_voice[k]
          /\ \E k \in 1..Len(mask) : ~mask[k]

\* C4: cleaning a cleaned mask again with the same parameters changes nothing.
C4_Idempotent ==
    Cleaned => apply_morphology(cfg, mask, hop_duration) = mask

\* a mask shorter than min_silence_frames that cleaning changed
C4_Witness ==
    /\ pc = "cleaned"
    /\ Len(mask_voice) < MinSilenceFrames(cfg, hop_duration)
    /\ mask # mask_voice

\* C5: with parameters in the accepted ranges, the intervals of process() are
\* sorted by start and none starts before the previous one ends.
C5_OrderedNoOverlap ==
    (Extracted /\ RequestAccepts(cfg)) =>
        \A k \in 1..(Len(intervals) - 1) :
            /\ intervals[k][1] <= intervals[k + 1][1]
            /\ intervals[k + 1][1] >= intervals[k][2]

\* C6: no interval starts before 0 or ends after total_duration.
C6_MarginClamped ==
    Extracted =>
        \A k \in 1..Len(intervals) :
            intervals[k][1] >= 0 /\ intervals[k][2] <= total_duration

\* the margin reached past both ends of the signal
C6_Witness ==
    /\ pc = "extracted"
    /\ cfg.margin_ms > 0
    /\ Len(intervals) >= 2
    /\ mask[1] /\ intervals[1][1] = 0
    /\ mask[Len(mask)] /\ intervals[Len(intervals)][2] = total_duration

\* C7: a configuration whose minimum run length is zero or negative is
\* refused before any frame is processed: no mask, no intervals.
C7_InvalidConfigFailsFast ==
    (\/ CeilDiv(cfg.min_noise_ms, HopMs) <= 0
     \/ CeilDiv(cfg.min_silence_ms, HopMs) <= 0)
    => (idx = 0 /\ mask = <<>> /\ intervals = <<>>)

\* C8: render with an empty interval list fails and runs no encoder.
C8_RenderEmptyFails ==
    (RenderCalled /\ intervals = <<>>) =>
        (render_result = "raised" /\ encoder_calls = 0)

\* C9: silence, activity, a gap shorter than min_silence_frames, activity,
\* silence: one interval from the first run's start to the second run's end,
\* widened by the margin and clamped.
C9_ShortGapAbsorbed ==
    Extracted =>
        LET rs == Runs(mask_voice)
            ns == MinSilenceFrames(cfg, hop_duration)
            nn == MinNoiseFrames(cfg, hop_duration)
        IN (/\ Len(rs) = 5
            /\ ~rs[1][1]
            /\ rs[1][2] >= ns /\ rs[5][2] >= ns
            /\ rs[2][2] >= nn /\ rs[4][2] >= nn
            /\ rs[3][2] < ns)
           => intervals =
                <<<<Max(0, rs[1][2] * hop_duration - cfg.margin_ms),
                    Min((rs[1][2] + rs[2][2] + rs[3][2] + rs[4][2])
                            * hop_duration + cfg.margin_ms,
                        total_duration)>>>>

\* such a mask with min_noise_frames = 2 went through process()
C9_Witness ==
    /\ pc = "extracted"
    /\ MinNoiseFrames(cfg, hop_duration) = 2
    /\ MinSilenceFrames(cfg, hop_duration) = 2
    /\ cfg.margin_ms > 0
    /\ mask_voice = <<FALSE, FALSE, TRUE, TRUE, FALSE, TRUE, TRUE, FALSE, FALSE>>
    /\ Len(intervals) = 1

\* C10 as stated: an all-false gate mask of any length gives no interval.
C10_SilentYieldsEmpty ==
    (Extracted /\ AllFalse(mask_voice)) => intervals = <<>>

\* C10 amended: an all-false gate mask of at least min_silence_frames frames
\* gives no interval.
C10_LongSilentYieldsEmpty ==
    (/\ Extracted
     /\ AllFalse(mask_voice)
     /\ Len(mask_voice) >= MinSilenceFrames(cfg, hop_duration))
    => intervals = <<>>

\* a silent signal of exactly min_silence_frames frames
C10_Witness ==
    /\ pc = "extracted"
    /\ AllFalse(mask_voice)
    /\ MinSilenceFrames(cfg, hop_duration) >= 2
    /\ Len(mask_voice) = MinSilenceFrames(cfg, hop_duration)
    /\ intervals = <<>>

\* C11: a gate mask whose maximal true runs are all shorter than
\* min_noise_frames and whose length is at least min_silence_frames goes
\* through apply_morphology then mask_to_intervals to an empty interval list.
C11_BlipSuppressed ==
    (/\ Extracted
     /\ \A k \in 1..Len(mask_voice) :
           mask_voice[k] =>
               RunLengthAt(mask_voice, k) < FramesCovering(cfg.min_noise_ms, hop_duration)
     /\ Len(mask_voice) >= FramesCovering(cfg.min_silence_ms, hop_duration))
        => (AllFalse(mask) /\ intervals = <<>>)

\* a one-frame blip inside silence, min_noise_frames = 2, nothing is kept
C11_Witness ==
    /\ Extracted
    /\ FramesCovering(cfg.min_noise_ms, hop_duration) = 2
    /\ Len(mask_voice) >= FramesCovering(cfg.min_silence_ms, hop_duration)
    /\ \E k \in 2..(Len(mask_voice) - 1) :
          /\ mask_voice[k]
          /\ \A q \in 1..Len(mask_voice) : q # k => ~mask_voice[q]
    /\ intervals = <<>>

\* C12: mask_to_intervals gives the maximal true run of frames [i, j) the
\* interval (max(0, i*hop - margin), min(total_duration, j*hop + margin)),
\* run after run in order, and gives the false runs nothing (a run whose
\* interval has no positive length is left out).
C12_ExtractionFormula ==
    Extracted =>
        LET runs == TrueRuns(mask)
            formula == [k \in 1..Len(runs) |->
                           FormulaInterval(runs[k], cfg.margin_ms, hop_duration,
                                           total_duration)]
        IN intervals = SelectIntervals(formula, 1)

\* two runs: the second starts margin before its first frame, and ends at
\* total_duration because of the clamp
C12_Witness ==
    /\ Extracted
    /\ cfg.margin_ms > 0
    /\ Len(TrueRuns(mask)) = 2
    /\ Len(intervals) = 2
    /\ intervals[2][1] = TrueRuns(mask)[2][1] * hop_duration - cfg.margin_ms
    /\ intervals[2][1] > 0
    /\ intervals[2][2] = total_duration
    /\ total_duration < TrueRuns(mask)[2][2] * hop_duration + cfg.margin_ms

\* C13: every interval that mask_to_intervals returns has start < end.
C13_StartBeforeEnd ==
    Extracted =>
        \A k \in 1..Len(intervals) : intervals[k][1] < intervals[k][2]

\* the last frame is a true run that starts at total_duration with no margin:
\* its clamped end equals its start, and no interval is returned for it
C13_Witness ==
    /\ Extracted
    /\ cfg.margin_ms = 0
    /\ Len(mask) >= 2
    /\ mask[Len(mask)] /\ ~mask[Len(mask) - 1]
    /\ total_duration = (Len(mask) - 1) * hop_duration
    /\ Len(TrueRuns(mask)) = 2
    /\ Len(intervals) = 1

\* C14 as stated: with margin >= 0 and
\* total_duration >= (len(mask) - 1) * hop_duration, mask_to_intervals returns
\* as many intervals as the mask has maximal true runs.
C14_OnePerRun ==
    (/\ Extracted
     /\ cfg.margin_ms >= 0
     /\ total_duration >= (Len(mask) - 1) * hop_duration)
        => Len(intervals) = Len(TrueRuns(mask))

\* C14 amended: with margin >= 0 and
\* total_duration > (len(mask) - 1) * hop_duration, mask_to_intervals returns
\* one interval per maximal true run, in run order, each covering the frames
\* of its run up to total_duration, and merges no two of them even when they
\* touch or overlap.
C14_OnePerRunStrict ==
    (/\ Extracted
     /\ cfg.margin_ms >= 0
     /\ total_duration > (Len(mask) - 1) * hop_duration)
        => /\ Len(intervals) = Len(TrueRuns(mask))
           /\ \A k \in 1..Len(intervals) :
                 /\ intervals[k][1] <= TrueRuns(mask)[k][1] * hop_duration
                 /\ intervals[k][2] >=
                        Min(total_duration, TrueRuns(mask)[k][2] * hop_duration)
                 /\ intervals[k][2] <=
                        TrueRuns(mask)[k][2] * hop_duration + cfg.margin_ms

\* two runs whose widened intervals overlap, returned as two intervals
C14_Witness ==
    /\ Extracted
    /\ total_duration > (Len(mask) - 1) * hop_duration
    /\ Len(TrueRuns(mask)) = 2
    /\ Len(intervals) = 2
    /\ intervals[2][1] < intervals[1][2]

\* the two passes in the other order: short silence runs first (flipped to
\* true), short active runs second (flipped to false)
SilenceFirst(c, m, hop) ==
    FlipShortRuns(
        FlipShortRuns(m, FramesCovering(c.min_silence_ms, hop), FALSE),
        FramesCovering(c.min_noise_ms, hop), TRUE)

\* C15: there are a mask and parameters for which squashing the short silence
\* runs first and the short active runs second gives a mask different from
\* the one apply_morphology gives (evaluated once a detector is constructed).
C15_PassOrderMatters ==
    pc = "constructed" =>
        \E c \in Configs, m \in BoundedSeqs(BOOLEAN, MaxGateFrames) :
            SilenceFirst(c, m, HopMs) # apply_morphology(c, m, HopMs)

\* process() has cleaned true, false, true with both minimum lengths at two
\* frames to all false, where silence first would have given all true
C15_Witness ==
    /\ Cleaned
    /\ mask_voice = <<TRUE, FALSE, TRUE>>
    /\ FramesCovering(cfg.min_noise_ms, hop_duration) = 2
    /\ FramesCovering(cfg.min_silence_ms, hop_duration) = 2
    /\ mask = <<FALSE, FALSE, FALSE>>
    /\ SilenceFirst(cfg, mask_voice, hop_duration) = <<TRUE, TRUE, TRUE>>

\* C16: when detect_activity returns on a constant loudness sequence, the
\* mask is false at every frame if the value does not exceed exit_silence_db
\* and true at every frame if it does.
C16_ConstantInputConstantMask ==
    (/\ pc = "detected"
     /\ \A k \in 1..Len(db) : db[k] = db[1])
        => \A k \in 1..Len(mask_voice) :
               mask_voice[k] = (db[1] > ExitSilenceDb(cfg))

\* C18: for a non-empty list of n intervals, the plan of
\* generate_filter_complex is, for each interval i in order, one video trim
\* labelled v<i> without fades and one audio trim labelled a<i> with fades,
\* both on the interval's bounds, then one concat of n segments whose inputs
\* are v0, a0, v1, a1, ...; there is no other step.
C18_ConcatenationPlan ==
    (RenderCalled /\ intervals # <<>>) =>
        LET n == Len(intervals)
        IN /\ Len(filter_complex) = 2 * n + 1
           /\ \A i \in 0..(n - 1) :
                 LET v == filter_complex[2 * i + 1]
                     a == filter_complex[2 * i + 2]
                 IN /\ v.op = "trim" /\ v.out = <<"v", i>>
                    /\ v.start = intervals[i + 1][1]
                    /\ v.end = intervals[i + 1][2]
                    /\ v.fades = <<>>
                    /\ a.op = "atrim" /\ a.out = <<"a", i>>
                    /\ a.start = intervals[i + 1][1]
                    /\ a.end = intervals[i + 1][2]
                    /\ a.fades # <<>>
           /\ LET cat == filter_complex[2 * n + 1]
              IN /\ cat.op = "concat"
                 /\ cat.n = n
                 /\ Len(cat.inputs) = 2 * n
                 /\ \A i \in 0..(n - 1) :
                       /\ cat.inputs[2 * i + 1] = <<"v", i>>
                       /\ cat.inputs[2 * i + 2] = <<"a", i>>

\* render has built the plan of three intervals
C18_Witness ==
    /\ RenderCalled
    /\ Len(intervals) = 3
    /\ Len(filter_complex) = 7
    /\ filter_complex[7].op = "concat"

\* detection has handed task j an empty interval list
TaskDetectedNothing(j) == task_intervals[j] = <<<<>>>>

\* process_video_task of job j has left its try block
TaskEnded(j) == task_pc[j] \in {"finally", "done"}

\* main() has ended after process() returned
MainEnded == pc \in {"exit0", "exit1"}

\* C17: when detection returns an empty interval list, the web task never
\* calls render and never marks the job completed, and it ends with the job
\* failed and an error set; main() ends with exit status 1, having exported
\* nothing and rendered nothing.
C17_EmptyDetectionFails ==
    /\ \A j \in JobIds :
          TaskDetectedNothing(j) =>
              /\ task_renders[j] = 0
              /\ task_encodes[j] = 0
              /\ (j \in DOMAIN jobs => jobs[j] = task_job[j])
              /\ task_job[j].status # "completed"
              /\ task_job[j].output_file = None
              /\ TaskEnded(j) =>
                    /\ task_job[j].status = "failed"
                    /\ task_job[j].error \notin {None, ""}
    /\ (MainEnded /\ intervals = <<>>) =>
          /\ pc = "exit1"
          /\ ~exported
          /\ render_result = "none"
          /\ encoder_calls = 0

\* a task that got an empty list has left its try block, its job failed
C17_Witness ==
    \E j \in JobIds :
        /\ TaskDetectedNothing(j)
        /\ task_pc[j] = "finally"
        /\ task_job[j].status = "failed"
        /\ task_job[j].error = NoSegmentError.msg

\* main() has ended on an empty list returned for a real mask
MainEndedOnNothing == MainEnded /\ intervals = <<>> /\ mask # <<>>

\* the try block of task j has raised
TaskFailed(j) == task_exc[j] # NoException

LoopsReturned == pc = "loops_returned"

\* what the loops leave equals what the functions compute
LoopsAgree ==
    LoopsReturned =>
        /\ mask = apply_morphology(cfg, mask_voice, hop_duration)
        /\ intervals = mask_to_intervals(cfg, mask, hop_duration, total_duration)

\* C20: on every finite mask (the empty one included) and every integer
\* min_len (0 and negative included), each iteration of the loops of
\* _squash_short_runs and mask_to_intervals strictly increases the scan
\* index, both functions return, and the empty mask gives the empty mask and
\* the empty interval list.
C20_Totality ==
    /\ [][pc' = pc => idx' > idx]_vars
    /\ [](idx <= Len(mask))
    /\ <>LoopsReturned
    /\ []((LoopsReturned /\ mask_voice = <<>>)
             => (mask = <<>> /\ intervals = <<>>))

\* both passes ran with min_len = -1 on a mask of true, false, true and
\* mask_to_intervals returned its two intervals
C20_Witness ==
    /\ LoopsReturned
    /\ MinNoiseFrames(cfg, hop_duration) = -1
    /\ MinSilenceFrames(cfg, hop_duration) = -1
    /\ mask_voice = <<TRUE, FALSE, TRUE>>
    /\ Len(intervals) = 2

\* the loops have returned on the empty mask
LoopsReturnedOnEmpty == LoopsReturned /\ mask_voice = <<>>

\* a pass of _squash_short_runs is running
Squashing == pc \in {"squash_true", "squash_false"}

\* C30: while _squash_short_runs runs, the array passed to it keeps every
\* element, and so does the array passed to apply_morphology through both
\* passes; the working mask, which is returned, has the length of the input.
C30_InputUntouched ==
    /\ [][/\ mask_voice' = mask_voice
          /\ (Squashing /\ pc' = pc) => squash_in' = squash_in]_vars
    /\ [](Len(mask) = Len(mask_voice) /\ Len(mask) = Len(squash_in))

\* both passes have flipped a run: the second pass returned a mask that
\* differs from the array it was given, which differs from the first input
C30_Witness ==
    /\ pc = "intervals_loop"
    /\ mask # squash_in
    /\ squash_in # mask_voice
    /\ Len(mask) = Len(mask_voice)

\* the loudness series of the loaded audio has been computed
Framed == pc = "framed"

InCriticalSection(j) ==
    task_pc[j] \in {"begun", "detected", "rendering", "finally"}

Encoding == {j \in JobIds : InCriticalSection(j)}

WithStatus(st) == {j \in DOMAIN jobs : jobs[j].status = st}

\* C22: at most one task is between the semaphore's acquire and its release,
\* and at most one job of the jobs dict has status "processing".
C22_MutualExclusion ==
    /\ Cardinality(Encoding) <= 1
    /\ Cardinality(WithStatus("processing")) <= 1

\* C23: the semaphore's value is 1 less the number of tasks between acquire
\* and release, never above 1 and never below 0: each task that acquired it
\* releases it once, whether its job completed or failed, and with no task
\* left in between the value is 1 again.
C23_SemaphoreRestored ==
    /\ semaphore = 1 - Cardinality(Encoding)
    /\ semaphore \in {0, 1}
    /\ (Encoding = {} => semaphore = 1)

\* two tasks have ended, one on success and one on failure
C23_Witness ==
    /\ semaphore = 1
    /\ \E j, k \in DOMAIN jobs :
          /\ task_pc[j] = "done" /\ jobs[j].status = "completed"
          /\ task_pc[k] = "done" /\ jobs[k].status = "failed"

Settled(j) == j \in DOMAIN jobs /\ jobs[j].status \in {"completed", "failed"}

\* C24: a job whose status is "pending" is later "completed" or "failed".
C24_AcceptedSettles ==
    \A j \in JobIds :
        (j \in DOMAIN jobs /\ jobs[j].status = "pending") ~> Settled(j)

\* the step answers a request op for job j
Answers(op, j) == response'.op = op /\ response'.job_id = j

\* C25: a process request for a job not in jobs is answered 404 and one for a
\* job that is not "uploaded" 400, both leaving jobs, the saved jobs and the
\* tasks as they were; one for an "uploaded" job is answered 200, makes the job
\* pending and schedules its task; no other step schedules a task, and a job
\* that is not "uploaded" never becomes "uploaded" again, so a job gets one
\* processing run at most.
C25_SingleRun ==
    [][\A j \in JobIds :
          /\ Answers("process", j) =>
                IF j \notin DOMAIN jobs
                   THEN /\ response'.code = 404
                        /\ UNCHANGED <<jobs, jobs_file, task_pc>>
                ELSE IF jobs[j].status # "uploaded"
                   THEN /\ response'.code = 400
                        /\ UNCHANGED <<jobs, jobs_file, task_pc>>
                   ELSE /\ response'.code = 200
                        /\ jobs'[j].status = "pending"
                        /\ task_pc[j] = "none"
                        /\ task_pc'[j] = "scheduled"
                        /\ \A k \in JobIds \ {j} :
                              /\ task_pc'[k] = task_pc[k]
                              /\ k \in DOMAIN jobs => jobs'[k] = jobs[k]
          /\ (task_pc'[j] = "scheduled" /\ task_pc[j] # "scheduled") =>
                response' = Answer("process", j, 200)
          /\ (j \in DOMAIN jobs' /\ jobs'[j].status = "uploaded") =>
                \/ j \in DOMAIN jobs /\ jobs[j].status = "uploaded"
                \/ j \notin DOMAIN jobs /\ j = next_id
      ]_vars

\* a second request for a job whose task is scheduled was refused
C25_Witness ==
    \E j \in DOMAIN jobs :
        /\ response = Answer("process", j, 400)
        /\ jobs[j].status = "pending"
        /\ task_pc[j] = "scheduled"

\* the statuses a job in status st may have after a step
StatusAfter(st) ==
    CASE st = "uploaded" -> {"uploaded", "pending"}
      [] st = "pending" -> {"pending", "processing"}
      [] st = "processing" -> {"processing", "completed", "failed"}
      [] OTHER -> {st}

\* C26: a step leaves a job's status or moves it one step along uploaded,
\* pending, processing, completed or failed (so the last two are final and
\* are reached from "processing" only); a job enters jobs as "uploaded"; and
\* a job leaves jobs only in a step of cleanup_old_files, being old.
C26_Lifecycle ==
    [][\A j \in JobIds :
          /\ (j \in DOMAIN jobs /\ j \in DOMAIN jobs') =>
                jobs'[j].status \in StatusAfter(jobs[j].status)
          /\ (task_job[j] # NoJob /\ task_job'[j] # NoJob) =>
                task_job'[j].status \in StatusAfter(task_job[j].status)
          /\ (j \notin DOMAIN jobs /\ j \in DOMAIN jobs') =>
                jobs'[j].status = "uploaded"
          /\ (j \in DOMAIN jobs /\ j \notin DOMAIN jobs') =>
                /\ cleanups' = cleanups - 1
                /\ j \in OldJobs(jobs, now)
      ]_vars

\* a finished job was asked to be processed again and is as it was, and
\* cleanup has deleted an older job
C26_Witness ==
    \E j \in DOMAIN jobs :
        /\ jobs[j].status = "completed"
        /\ response = Answer("process", j, 400)
        /\ \E k \in 1..(next_id - 1) : k \notin DOMAIN jobs

\* C27: a download is answered 200 only for a job that is "completed", and
\* 400 for every job of jobs in another status; and every "completed" job
\* has an output_file and progress 100.
C27_DownloadGuard ==
    /\ \A j \in JobIds :
          (response.op = "download" /\ response.job_id = j) =>
              /\ response.code = 200 =>
                    j \in DOMAIN jobs /\ jobs[j].status = "completed"
              /\ (j \in DOMAIN jobs /\ jobs[j].status # "completed") =>
                    response.code = 400
    /\ \A j \in DOMAIN jobs :
          jobs[j].status = "completed" =>
              /\ jobs[j].output_file # None
              /\ jobs[j].progress = 100

\* a completed job was downloaded, next to a failed job whose output file
\* had been written
C27_Witness ==
    \E j, k \in DOMAIN jobs :
        /\ jobs[j].status = "completed"
        /\ jobs[k].status = "failed"
        /\ k \in files.outputs
        /\ response = Answer("download", j, 200)

\* C28: an upload that read more than MAX_FILE_SIZE is answered 413, and it
\* leaves jobs, the saved jobs and the files on disk as they were.
C28_OversizeRejected ==
    [][(response'.op = "upload" /\ response'.file_size > MAX_FILE_SIZE) =>
          /\ response'.code = 413
          /\ UNCHANGED <<jobs, jobs_file, files>>
      ]_vars

C31_SilenceRunsLong ==
    (Cleaned /\ FramesCovering(cfg.min_silence_ms, hop_duration) >= 1) =>
        \A k \in 1..Len(mask) :
            ~mask[k] =>
                RunLengthAt(mask, k) >= FramesCovering(cfg.min_silence_ms, hop_duration)

\* the cleaned mask starts and ends with silence, and a shorter silence of
\* the gate's mask has been flipped
C31_Witness ==
    /\ Cleaned
    /\ FramesCovering(cfg.min_silence_ms, hop_duration) >= 2
    /\ ~mask[1]
    /\ ~mask[Len(mask)]
    /\ \E k \in 1..Len(mask) : mask[k] /\ ~mask_voice[k]

\* C32: every maximal run of true in the mask apply_morphology returns has
\* min_noise_frames frames or more.
C32_ActivityRunsLong ==
    Cleaned =>
        \A k \in 1..Len(mask) :
            mask[k] =>
                RunLengthAt(mask, k) >= FramesCovering(cfg.min_noise_ms, hop_duration)

\* C32, amended: every maximal run of true in the cleaned mask has
\* min_noise_frames frames or more, but for a mask shorter than
\* min_noise_frames and than min_silence_frames: it comes out all true.
C32_ActivityRunsLongOrWhole ==
    Cleaned =>
        IF /\ Len(mask) < FramesCovering(cfg.min_noise_ms, hop_duration)
           /\ Len(mask) < FramesCovering(cfg.min_silence_ms, hop_duration)
           THEN \A k \in 1..Len(mask) : mask[k]
           ELSE \A k \in 1..Len(mask) :
                    mask[k] =>
                        RunLengthAt(mask, k) >=
                            FramesCovering(cfg.min_noise_ms, hop_duration)

\* a blip has been removed and a short silence between two activities
\* closed, in a mask longer than both minimums
C32_Witness ==
    /\ Cleaned
    /\ FramesCovering(cfg.min_noise_ms, hop_duration) >= 2
    /\ Len(mask) >= FramesCovering(cfg.min_silence_ms, hop_duration)
    /\ \E k \in 1..Len(mask) : mask_voice[k] /\ ~mask[k]
    /\ \E k \in 1..Len(mask) : mask[k] /\ ~mask_voice[k]

Running(job) == job.status \in {"pending", "processing"}

\* C33, first half: a step of cleanup_old_files deletes from jobs the jobs
\* created before now - CLEANUP_AFTER_HOURS, and leaves every other job in
\* jobs as it was.
CleanupRemovesOld ==
    [][CleanupOldFiles =>
          /\ DOMAIN jobs' = (DOMAIN jobs) \ OldJobs(jobs, now)
          /\ \A j \in DOMAIN jobs' : jobs'[j] = jobs[j]
      ]_vars

\* C33: a step of cleanup_old_files deletes from jobs the jobs created before
\* now - CLEANUP_AFTER_HOURS and leaves every other job as it was, and it keeps
\* every job that is "pending" or "processing", and that job's uploaded file.
C33_CleanupSparesRunning ==
    [][CleanupOldFiles =>
          /\ DOMAIN jobs' = (DOMAIN jobs) \ OldJobs(jobs, now)
          /\ \A j \in DOMAIN jobs' : jobs'[j] = jobs[j]
          /\ \A j \in DOMAIN jobs :
                Running(jobs[j]) =>
                    /\ j \in DOMAIN jobs'
                    /\ j \in files.uploads => j \in files'.uploads
      ]_vars

\* get_audio_segments has returned
FastReturned == pc = "fast_returned"

\* C34: for silences in order, none overlapping the next, within [0, duration]
\* and a margin >= 0, the segments get_audio_segments returns are in order of
\* start, none starts before the one before it ends, and each has
\* 0 <= start < end <= duration; with no silence the result is the one
\* segment (0, duration).
C34_FastSegmentsOrdered ==
    FastReturned =>
        /\ \A k \in 1..Len(intervals) :
              /\ 0 <= intervals[k][1]
              /\ intervals[k][1] < intervals[k][2]
              /\ intervals[k][2] <= total_duration
        /\ \A k \in 2..Len(intervals) :
              /\ intervals[k - 1][1] <= intervals[k][1]
              /\ intervals[k - 1][2] <= intervals[k][1]
        /\ silences = <<>> => intervals = <<<<0, total_duration>>>>

\* what holds of the segments: each starts at or after 0 and before it ends,
\* starts are in order and the last segment ends at or before the duration;
\* and with silences of 2 * margin or more, the first starting at least
\* margin before the end of the audio, all that C34 says
FastSegmentsWhenWide ==
    FastReturned =>
        /\ \A k \in 1..Len(intervals) :
              0 <= intervals[k][1] /\ intervals[k][1] < intervals[k][2]
        /\ \A k \in 2..Len(intervals) :
              /\ intervals[k - 1][1] <= intervals[k][1]
              /\ intervals[k][2] <= total_duration
        /\ silences = <<>> => intervals = <<<<0, total_duration>>>>
        /\ (/\ \A k \in 1..Len(silences) :
                  silences[k][2] - silences[k][1] >= 2 * cfg.margin_s
            /\ silences # <<>> => silences[1][1] + cfg.margin_s <= total_duration)
              => C34_FastSegmentsOrdered

============================================================================
